---------------------------- MODULE Spec2Model ----------------------------
(***************************************************************************)
(* Model of src/bebopr_r2.c: the BeBoPr board configuration layer.         *)
(*                                                                         *)
(*   - get_kernel_type():  lazy classification of the kernel release       *)
(*   - bebopr_pre_init():  kernel / bridge checks, the four config stages, *)
(*                         the stepper driver selection                    *)
(*   - bebopr_post_init() / bebopr_exit(): I/O power GPIO sequencing       *)
(*   - config_set_cal_pos() / config_min_switch_pos(): calibration data    *)
(*                                                                         *)
(* Strings are sequences of character codes without the terminating NUL.   *)
(* Positions (double, metres) are integers in units of 0.1 um.             *)
(***************************************************************************)
EXTENDS Integers, Sequences, FiniteSets

VARIABLES
    \* build configuration (preprocessor symbols, fixed for a build)
    BONE_BRIDGE, BONE_ENA_PATCH,
    \* file-scope state of bebopr_r2.c
    current_kernel, kernel_release, use_pololu_drivers,
    x_cal_pos, y_cal_pos, z_cal_pos,
    \* the calls made so far, as seen by the caller and the collaborators
    last_op,                \* the last operation called
    uname_ans,              \* what uname() answered in the last operation
    uname_called,           \* whether the last operation called uname()
    kt_ret,                 \* what get_kernel_type() returned last
    first_kt,               \* what the first get_kernel_type() call returned
    result,                 \* the int the last operation returned
    pre_trace,              \* config calls of the last bebopr_pre_init()
    eeprom_ret,             \* eeprom read of the last bebopr_pre_init()
    on_writes, off_writes,  \* gpio writes of the last post_init / exit
    arg_axis,               \* axis argument of the last calibration call
    out_pos,                \* *pos after the last config_min_switch_pos()
    last_cal                \* per axis: << >>, or << the last value set >>

vars == << BONE_BRIDGE, BONE_ENA_PATCH, current_kernel, kernel_release,
           use_pololu_drivers, x_cal_pos, y_cal_pos, z_cal_pos,
           last_op, uname_ans, uname_called, kt_ret, first_kt,
           result, pre_trace, eeprom_ret, on_writes, off_writes,
           arg_axis, out_pos, last_cal >>

buildVars == << BONE_BRIDGE, BONE_ENA_PATCH >>
kernelVars == << current_kernel, kernel_release >>
calVars == << x_cal_pos, y_cal_pos, z_cal_pos >>
preObs == << pre_trace, eeprom_ret >>
powerObs == << on_writes, off_writes >>
calObs == << arg_axis, out_pos, last_cal >>

-----------------------------------------------------------------------------
(* Bounds and input sets *)

\* longest release string enumerated exhaustively
MaxRelLen == 4
\* largest calibration position tried (besides the compiled-in defaults)
MaxPos == 2

\* character codes of '.', '2', '3', '8'
Alphabet == {46, 50, 51, 56}

RECURSIVE StringsOfLen(_)
StringsOfLen(n) ==
    IF n = 0 THEN { <<>> }
    ELSE { Append(s, c) : s \in StringsOfLen(n - 1), c \in Alphabet }

AllReleases == UNION { StringsOfLen(n) : n \in 0..MaxRelLen }

\* "3.2.34", "3.8.13", "4.1"
SampleReleases == { <<51, 46, 50, 46, 51, 52>>, <<51, 46, 56, 46, 49, 51>>,
                    <<52, 46, 49>> }

\* what uname() can answer: failure, or success with a release string
UnameFail == [ok |-> FALSE, release |-> <<>>]
UnameAnswers(releases) ==
    {UnameFail} \cup { [ok |-> TRUE, release |-> r] : r \in releases }
AllAnswers == UnameAnswers(AllReleases)
SampleAnswers == UnameAnswers(SampleReleases)

-----------------------------------------------------------------------------
(* Kernel Variant Detector: get_kernel_type(), lines 233-253 *)

\* sizeof( kernel_release)
KERNEL_RELEASE_SIZE == 50

\* the i-th char of a C string: past the end reads the terminating NUL
CharAt(s, i) == IF i <= Len(s) THEN s[i] ELSE 0

\* strncmp( s1, s2, n): compares at most n chars, stops at a NUL
RECURSIVE strncmp_from(_, _, _, _)
strncmp_from(s1, s2, n, i) ==
    IF i > n THEN 0
    ELSE IF CharAt(s1, i) # CharAt(s2, i) THEN CharAt(s1, i) - CharAt(s2, i)
    ELSE IF CharAt(s1, i) = 0 THEN 0
    ELSE strncmp_from(s1, s2, n, i + 1)

strncmp(s1, s2, n) == strncmp_from(s1, s2, n, 1)

\* strncpy( dst, src, size); dst[ size - 1] = '\0'
strncpy_terminated(src, size) ==
    IF Len(src) <= size - 1 THEN src ELSE SubSeq(src, 1, size - 1)

\* "3.2" and "3.8"
STR_3_2 == <<51, 46, 50>>
STR_3_8 == <<51, 46, 56>>

KernelTypes == {"e_kernel_unknown", "e_kernel_3_2", "e_kernel_3_8",
                "e_kernel_other"}

\* mutant: the whole release is compared, not its first three chars
classify_release_whole(release) ==
    IF release = STR_3_2 THEN "e_kernel_3_2"
    ELSE IF release = STR_3_8 THEN "e_kernel_3_8"
    ELSE "e_kernel_other"

\* lines 241-247
classify_release(release) ==
    IF strncmp(release, STR_3_2, 3) = 0 THEN "e_kernel_3_2"
    ELSE IF strncmp(release, STR_3_8, 3) = 0 THEN "e_kernel_3_8"
    ELSE "e_kernel_other"

\* mutant: no cache, the OS is asked on every call
get_kernel_type_nocache(ck, rel, u) ==
    IF u.ok
    THEN [kernel |-> classify_release(u.release),
          release |-> strncpy_terminated(u.release, KERNEL_RELEASE_SIZE),
          queried |-> TRUE]
    ELSE [kernel |-> ck, release |-> rel, queried |-> TRUE]

\* get_kernel_type() called with current_kernel = ck, kernel_release = rel,
\* where uname() would answer u: the new statics and whether uname() was
\* called.  The value returned is the new current_kernel (line 252).
get_kernel_type(ck, rel, u) ==
    IF ck = "e_kernel_unknown"
    THEN IF u.ok
         THEN [kernel |-> classify_release(u.release),
               release |-> strncpy_terminated(u.release, KERNEL_RELEASE_SIZE),
               queried |-> TRUE]
         ELSE [kernel |-> ck, release |-> rel, queried |-> TRUE]
    ELSE [kernel |-> ck, release |-> rel, queried |-> FALSE]

\* bookkeeping shared by every operation that calls get_kernel_type():
\* k is the outcome of its first call in the operation, u the uname() answer
KernelStep(k, u) ==
    /\ current_kernel' = k.kernel
    /\ kernel_release' = k.release
    /\ uname_called' = k.queried
    /\ uname_ans' = IF k.queried THEN u ELSE UnameFail
    /\ kt_ret' = k.kernel
    /\ first_kt' = IF first_kt = "none" THEN k.kernel ELSE first_kt

OpStep(name) == last_op' = name

\* uname() is called only while current_kernel is unknown (line 238): only
\* then is there an answer to draw
UnameInputs(answers) ==
    IF current_kernel = "e_kernel_unknown" THEN answers ELSE {UnameFail}

\* a direct call of get_kernel_type()
GetKernelType(answers) ==
    \E u \in UnameInputs(answers) :
        /\ KernelStep(get_kernel_type(current_kernel, kernel_release, u), u)
        /\ OpStep("get_kernel_type")
        /\ UNCHANGED << buildVars, use_pololu_drivers, calVars, result,
                        preObs, powerObs, calObs >>

-----------------------------------------------------------------------------
(* Pre-Init Orchestrator: bebopr_pre_init(), lines 255-311 *)

\* what a config call of an external subsystem can return (< 0: rejected)
StageResults == {-2, -1, 0, 1}

\* what eeprom_get_step_io_config() can return
EepromResults == {"TB6560_DRIVERS", "POLOLU_DRIVERS", "other_drivers",
                  "read_error"}

\* a collaborator that is not called has no answer to draw
StageInputs(called) == IF called THEN StageResults ELSE {0}
EepromInputs(called) == IF called THEN EepromResults ELSE {"read_error"}

Call(fn, r) == [fn |-> fn, ret |-> r]

\* mutant: the kernel check is left out
kernel_rejected_never(kt) == FALSE

\* line 267
kernel_rejected(kt) == kt = "e_kernel_unknown"

\* mutant: the bridge check is left out
bridge_rejected_never(bridge, kt) == FALSE

\* lines 275-281
bridge_rejected(bridge, kt) == bridge /\ kt = "e_kernel_3_2"

\* mutant: a rejected temperature table does not stop the sequence
config_stages_temp_unchecked(ra, rt, rp, rh) ==
    IF ra < 0 THEN << Call("analog_config", ra) >>
    ELSE IF rp < 0
    THEN << Call("analog_config", ra), Call("temp_config", rt),
            Call("pwm_config", rp) >>
    ELSE << Call("analog_config", ra), Call("temp_config", rt),
            Call("pwm_config", rp), Call("heater_config", rh) >>

\* lines 282-301: the config calls made, with what each returned, where
\* ra, rt, rp, rh are what the four subsystems answer when called
config_stages(ra, rt, rp, rh) ==
    IF ra < 0 THEN << Call("analog_config", ra) >>
    ELSE IF rt < 0
    THEN << Call("analog_config", ra), Call("temp_config", rt) >>
    ELSE IF rp < 0
    THEN << Call("analog_config", ra), Call("temp_config", rt),
            Call("pwm_config", rp) >>
    ELSE << Call("analog_config", ra), Call("temp_config", rt),
            Call("pwm_config", rp), Call("heater_config", rh) >>

\* lines 304-306
select_stepper_drivers(pololu, e) ==
    IF e = "TB6560_DRIVERS" THEN 0 ELSE pololu

\* line 358-361
config_use_pololu_drivers == use_pololu_drivers

bebopr_pre_init(answers) ==
    \E u \in UnameInputs(answers), ra \in StageResults :
    \E rt \in StageInputs(ra >= 0) :
    \E rp \in StageInputs(ra >= 0 /\ rt >= 0) :
    \E rh \in StageInputs(ra >= 0 /\ rt >= 0 /\ rp >= 0) :
    \E e \in EepromInputs(ra >= 0 /\ rt >= 0 /\ rp >= 0 /\ rh >= 0) :
        LET k1 == get_kernel_type(current_kernel, kernel_release, u)
            \* the later calls, lines 274 and 276
            k2 == get_kernel_type(k1.kernel, k1.release, u)
            k3 == get_kernel_type(k2.kernel, k2.release, u)
            trace == config_stages(ra, rt, rp, rh)
        IN  /\ OpStep("bebopr_pre_init")
            /\ UNCHANGED << buildVars, calVars, powerObs, calObs >>
            /\ IF kernel_rejected(k1.kernel)
               THEN /\ KernelStep(k1, u)
                    /\ result' = -1
                    /\ pre_trace' = << >>
                    /\ eeprom_ret' = "none"
                    /\ UNCHANGED use_pololu_drivers
               ELSE IF bridge_rejected(BONE_BRIDGE, k3.kernel)
               THEN /\ KernelStep([k3 EXCEPT !.queried =
                                      k1.queried \/ k2.queried \/ k3.queried], u)
                    /\ result' = -1
                    /\ pre_trace' = << >>
                    /\ eeprom_ret' = "none"
                    /\ UNCHANGED use_pololu_drivers
               ELSE /\ KernelStep([k3 EXCEPT !.queried =
                                      k1.queried \/ k2.queried \/ k3.queried], u)
                    /\ pre_trace' = trace
                    /\ IF trace[Len(trace)].ret < 0
                       THEN /\ result' = trace[Len(trace)].ret
                            /\ eeprom_ret' = "none"
                            /\ UNCHANGED use_pololu_drivers
                       ELSE /\ result' = 0
                            /\ eeprom_ret' = e
                            /\ use_pololu_drivers' =
                                   select_stepper_drivers(use_pololu_drivers, e)

-----------------------------------------------------------------------------
(* Power Sequencer: bebopr_post_init() and bebopr_exit(), lines 579-631 *)

\* gpio_write_int_value_to_file( file, pin): "export" / "unexport"
gpio_write_int_value_to_file(file, pin) ==
    [file |-> file, pin |-> pin, val |-> ""]

\* gpio_write_value_to_pin_file( pin, file, val): "direction" / "value"
gpio_write_value_to_pin_file(pin, file, val) ==
    [file |-> file, pin |-> pin, val |-> val]

\* #if defined( BONE_BRIDGE) || defined( BONE_ENA_PATCH)
single_enable_line(bridge, ena_patch) == bridge \/ ena_patch

\* mutant: the level is written before the line is exported
post_init_writes_level_first(single, kt) ==
    IF single
    THEN << gpio_write_value_to_pin_file(66, "value", "0") >>
         \o (IF kt = "e_kernel_3_2"
             THEN << gpio_write_int_value_to_file("export", 66),
                     gpio_write_value_to_pin_file(66, "direction", "out") >>
             ELSE << >>)
    ELSE << gpio_write_value_to_pin_file(38, "value", "1"),
            gpio_write_value_to_pin_file(34, "value", "0") >>
         \o (IF kt = "e_kernel_3_2"
             THEN << gpio_write_int_value_to_file("export", 38),
                     gpio_write_value_to_pin_file(38, "direction", "out"),
                     gpio_write_int_value_to_file("export", 34),
                     gpio_write_value_to_pin_file(34, "direction", "out") >>
             ELSE << >>)

\* lines 581-607: the gpio writes of bebopr_post_init(), in order
post_init_writes(single, kt) ==
    IF single
    THEN (IF kt = "e_kernel_3_2"
          THEN << gpio_write_int_value_to_file("export", 66),
                  gpio_write_value_to_pin_file(66, "direction", "out") >>
          ELSE << >>)
         \o << gpio_write_value_to_pin_file(66, "value", "0") >>
    ELSE (IF kt = "e_kernel_3_2"
          THEN << gpio_write_int_value_to_file("export", 38),
                  gpio_write_value_to_pin_file(38, "direction", "out"),
                  gpio_write_int_value_to_file("export", 34),
                  gpio_write_value_to_pin_file(34, "direction", "out") >>
          ELSE << >>)
         \o << gpio_write_value_to_pin_file(38, "value", "1"),
               gpio_write_value_to_pin_file(34, "value", "0") >>

\* lines 614-629: the gpio writes of bebopr_exit(), in order
exit_writes(single, kt) ==
    IF single
    THEN << gpio_write_value_to_pin_file(66, "value", "1") >>
         \o (IF kt = "e_kernel_3_2"
             THEN << gpio_write_value_to_pin_file(66, "direction", "in"),
                     gpio_write_int_value_to_file("unexport", 66) >>
             ELSE << >>)
    ELSE << gpio_write_value_to_pin_file(38, "value", "1"),
            gpio_write_value_to_pin_file(34, "value", "0") >>
         \o (IF kt = "e_kernel_3_2"
             THEN << gpio_write_value_to_pin_file(38, "direction", "in"),
                     gpio_write_int_value_to_file("unexport", 38),
                     gpio_write_value_to_pin_file(34, "direction", "in"),
                     gpio_write_int_value_to_file("unexport", 34) >>
             ELSE << >>)

bebopr_post_init(answers) ==
    \E u \in UnameInputs(answers) :
        LET k == get_kernel_type(current_kernel, kernel_release, u)
        IN  /\ OpStep("bebopr_post_init")
            /\ KernelStep(k, u)
            /\ on_writes' = post_init_writes(
                   single_enable_line(BONE_BRIDGE, BONE_ENA_PATCH), k.kernel)
            /\ result' = 0
            /\ UNCHANGED << buildVars, use_pololu_drivers, calVars, preObs,
                            off_writes, calObs >>

bebopr_exit(answers) ==
    \E u \in UnameInputs(answers) :
        LET k == get_kernel_type(current_kernel, kernel_release, u)
        IN  /\ OpStep("bebopr_exit")
            /\ KernelStep(k, u)
            /\ off_writes' = exit_writes(
                   single_enable_line(BONE_BRIDGE, BONE_ENA_PATCH), k.kernel)
            /\ UNCHANGED << buildVars, use_pololu_drivers, calVars, preObs,
                            on_writes, result, calObs >>

-----------------------------------------------------------------------------
(* Calibration positions: lines 481-504 *)

\* static double z_cal_pos = -2.7955E-3, in units of 0.1 um
Z_CAL_POS_DEFAULT == -27955

Axes == {"x_axis", "y_axis", "z_axis", "e_axis", "other_axis"}

\* the axes that have a stored calibration position
CalAxes == {"x_axis", "y_axis", "z_axis"}

Positions == {Z_CAL_POS_DEFAULT} \cup (0..MaxPos)

\* mutant: the new position is added to the stored one
config_set_cal_pos_additive(axis, pos, x, y, z) ==
    IF axis = "x_axis" THEN [x |-> x + pos, y |-> y, z |-> z, ret |-> 1]
    ELSE IF axis = "y_axis" THEN [x |-> x, y |-> y + pos, z |-> z, ret |-> 1]
    ELSE IF axis = "z_axis" THEN [x |-> x, y |-> y, z |-> z + pos, ret |-> 1]
    ELSE [x |-> x, y |-> y, z |-> z, ret |-> 0]

\* lines 485-493, with x, y, z the stored positions
config_set_cal_pos(axis, pos, x, y, z) ==
    IF axis = "x_axis" THEN [x |-> pos, y |-> y, z |-> z, ret |-> 1]
    ELSE IF axis = "y_axis" THEN [x |-> x, y |-> pos, z |-> z, ret |-> 1]
    ELSE IF axis = "z_axis" THEN [x |-> x, y |-> y, z |-> pos, ret |-> 1]
    ELSE [x |-> x, y |-> y, z |-> z, ret |-> 0]

\* lines 495-504, with p0 what the caller's *pos held before the call
config_min_switch_pos(axis, p0, x, y, z) ==
    IF axis = "x_axis" THEN [pos |-> x, ret |-> 1]
    ELSE IF axis = "y_axis" THEN [pos |-> y, ret |-> 1]
    ELSE IF axis = "z_axis" THEN [pos |-> z, ret |-> 1]
    ELSE [pos |-> p0, ret |-> 0]

SetCalPos ==
    \E axis \in Axes, pos \in Positions :
        LET r == config_set_cal_pos(axis, pos, x_cal_pos, y_cal_pos, z_cal_pos)
        IN  /\ OpStep("config_set_cal_pos")
            /\ x_cal_pos' = r.x
            /\ y_cal_pos' = r.y
            /\ z_cal_pos' = r.z
            /\ result' = r.ret
            /\ arg_axis' = axis
            /\ last_cal' = IF axis \in CalAxes
                           THEN [last_cal EXCEPT ![axis] = << pos >>]
                           ELSE last_cal
            /\ UNCHANGED << buildVars, kernelVars, use_pololu_drivers,
                            uname_ans, uname_called, kt_ret, first_kt,
                            preObs, powerObs, out_pos >>

MinSwitchPos ==
    \E axis \in Axes, p0 \in Positions :
        LET r == config_min_switch_pos(axis, p0, x_cal_pos, y_cal_pos,
                                       z_cal_pos)
        IN  /\ OpStep("config_min_switch_pos")
            /\ result' = r.ret
            /\ out_pos' = r.pos
            /\ arg_axis' = axis
            /\ UNCHANGED << buildVars, kernelVars, use_pololu_drivers,
                            calVars, uname_ans, uname_called, kt_ret,
                            first_kt, preObs, powerObs, last_cal >>

-----------------------------------------------------------------------------
(* Initial state and specifications *)

Init ==
    /\ BONE_BRIDGE \in BOOLEAN
    /\ BONE_ENA_PATCH \in BOOLEAN
    /\ current_kernel = "e_kernel_unknown"
    /\ kernel_release = << >>
    /\ use_pololu_drivers = 1
    /\ x_cal_pos = 0
    /\ y_cal_pos = 0
    /\ z_cal_pos = Z_CAL_POS_DEFAULT
    /\ last_op = "none"
    /\ uname_ans = UnameFail
    /\ uname_called = FALSE
    /\ kt_ret = "none"
    /\ first_kt = "none"
    /\ result = 0
    /\ pre_trace = << >>
    /\ eeprom_ret = "none"
    /\ on_writes = << >>
    /\ off_writes = << >>
    /\ arg_axis = "none"
    /\ out_pos = 0
    /\ last_cal = [a \in CalAxes |-> << >>]

\* the kernel detector alone, over every release string up to MaxRelLen
NextKernel == GetKernelType(AllAnswers)
SpecKernel == Init /\ [][NextKernel]_vars

\* start-up: the kernel detector and bebopr_pre_init()
NextPreInit ==
    \/ GetKernelType(SampleAnswers)
    \/ bebopr_pre_init(SampleAnswers)
SpecPreInit == Init /\ [][NextPreInit]_vars

\* the power sequencer with the kernel detector
NextPower ==
    \/ GetKernelType(SampleAnswers)
    \/ bebopr_post_init(SampleAnswers)
    \/ bebopr_exit(SampleAnswers)
SpecPower == Init /\ [][NextPower]_vars

\* the calibration accessors
NextCal ==
    \/ SetCalPos
    \/ MinSwitchPos
SpecCal == Init /\ [][NextCal]_vars

\* every operation of the module
Next ==
    \/ GetKernelType(SampleAnswers)
    \/ bebopr_pre_init(SampleAnswers)
    \/ bebopr_post_init(SampleAnswers)
    \/ bebopr_exit(SampleAnswers)
    \/ SetCalPos
    \/ MinSwitchPos
Spec == Init /\ [][Next]_vars

-----------------------------------------------------------------------------
(* Properties *)

IsLevel(w) == w.file = "value"
Opposite(v) == IF v = "0" THEN "1" ELSE "0"

\* C1: bebopr_post_init() followed by bebopr_exit() writes mirror images:
\* every line whose level post_init wrote is written by exit, and only with
\* the opposite level.
C1_MirrorImage ==
    (last_op = "bebopr_exit" /\ on_writes # << >>) =>
        \A i \in DOMAIN on_writes :
            IsLevel(on_writes[i]) =>
                /\ \E j \in DOMAIN off_writes :
                       /\ IsLevel(off_writes[j])
                       /\ off_writes[j].pin = on_writes[i].pin
                /\ \A j \in DOMAIN off_writes :
                       (IsLevel(off_writes[j])
                            /\ off_writes[j].pin = on_writes[i].pin)
                       => off_writes[j].val = Opposite(on_writes[i].val)

HasPrefix(s, p) ==
    /\ Len(s) >= Len(p)
    /\ \A i \in 1..Len(p) : s[i] = p[i]

ExpectedKernel(u) ==
    IF ~u.ok THEN "e_kernel_unknown"
    ELSE IF HasPrefix(u.release, STR_3_2) THEN "e_kernel_3_2"
    ELSE IF HasPrefix(u.release, STR_3_8) THEN "e_kernel_3_8"
    ELSE "e_kernel_other"

\* C2: on the call that queries the OS, get_kernel_type() returns 3.2-legacy
\* for a release with prefix "3.2", 3.8-device-tree for prefix "3.8", other
\* for any other release, and unknown when the query fails.
C2_Classification ==
    (last_op = "get_kernel_type" /\ uname_called) =>
        kt_ret = ExpectedKernel(uname_ans)

C2_Witness ==
    /\ last_op = "get_kernel_type"
    /\ uname_called
    /\ uname_ans.ok
    /\ Len(uname_ans.release) > 3
    /\ HasPrefix(uname_ans.release, STR_3_2)
    /\ kt_ret = "e_kernel_3_2"

\* C3 as stated: after the first call of get_kernel_type(), whatever it
\* returned, no later call queries the OS and each returns what the first
\* call returned.
C3_CachedWhateverFirst ==
    [][first_kt # "none" => (~uname_called' /\ kt_ret' = first_kt)]_vars

\* C3 as amended: once get_kernel_type() has returned a generation other
\* than unknown, no later call queries the OS, each returns that same
\* generation and the cached release string stays as it is.
C3_CachedOnceResolved ==
    [][(kt_ret \notin {"none", "e_kernel_unknown"}) =>
          /\ ~uname_called'
          /\ kt_ret' = kt_ret
          /\ current_kernel' = kt_ret
          /\ kernel_release' = kernel_release]_vars

C3_Witness ==
    /\ last_op = "bebopr_exit"
    /\ on_writes # << >>
    /\ first_kt = "e_kernel_3_8"
    /\ kt_ret = "e_kernel_3_8"
    /\ ~uname_called

\* C4: bebopr_pre_init() returns success only when the kernel generation is
\* 3.2-legacy or 3.8-device-tree.
C4_RejectsUnrecognized ==
    (last_op = "bebopr_pre_init" /\ result >= 0) =>
        current_kernel \in {"e_kernel_3_2", "e_kernel_3_8"}

\* C5: when the kernel generation is unknown, bebopr_pre_init() returns a
\* negative result, having called no config function and not read the
\* stepper-driver storage.
C5_UnknownKernelFails ==
    (last_op = "bebopr_pre_init" /\ current_kernel = "e_kernel_unknown") =>
        /\ result < 0
        /\ pre_trace = << >>
        /\ eeprom_ret = "none"

C5_Witness ==
    /\ last_op = "bebopr_pre_init"
    /\ current_kernel = "e_kernel_unknown"
    /\ uname_called
    /\ ~uname_ans.ok
    /\ result < 0

\* C6: in a Bridge build bebopr_pre_init() fails on a 3.2-legacy kernel
\* before any table is handed over; in a build without the Bridge a
\* 3.2-legacy kernel reaches the first config call, and the call succeeds
\* when no table is rejected.
C6_BridgeNeedsDeviceTree ==
    (last_op = "bebopr_pre_init" /\ current_kernel = "e_kernel_3_2") =>
        IF BONE_BRIDGE
        THEN /\ result < 0
             /\ pre_trace = << >>
             /\ eeprom_ret = "none"
        ELSE /\ pre_trace # << >>
             /\ pre_trace[1].fn = "analog_config"
             /\ (\A i \in DOMAIN pre_trace : pre_trace[i].ret >= 0)
                    => result = 0

C6_Witness ==
    /\ last_op = "bebopr_pre_init"
    /\ BONE_BRIDGE
    /\ current_kernel = "e_kernel_3_2"
    /\ result < 0
    /\ pre_trace = << >>

StageOrder ==
    << "analog_config", "temp_config", "pwm_config", "heater_config" >>

\* C7: bebopr_pre_init() calls the config functions in the order analog,
\* temp, pwm, heater; a stage is called only if every earlier one returned
\* success, the sequence goes on after a success, and after a rejection
\* pre_init returns that stage's result without reading the stepper-driver
\* storage.
C7_StagesInOrder ==
    (last_op = "bebopr_pre_init") =>
        LET n == Len(pre_trace) IN
        /\ n <= Len(StageOrder)
        /\ \A i \in 1..n : pre_trace[i].fn = StageOrder[i]
        /\ \A i \in 1..n : (i < n) => pre_trace[i].ret >= 0
        /\ (n > 0 /\ n < Len(StageOrder)) => pre_trace[n].ret < 0
        /\ (n > 0 /\ pre_trace[n].ret < 0) =>
               /\ result = pre_trace[n].ret
               /\ eeprom_ret = "none"
        /\ (eeprom_ret # "none") =>
               /\ n = Len(StageOrder)
               /\ pre_trace[n].ret >= 0

C7_Witness ==
    /\ last_op = "bebopr_pre_init"
    /\ Len(pre_trace) = 2
    /\ pre_trace[1].ret = 1
    /\ pre_trace[2] = Call("temp_config", -2)
    /\ result = -2
    /\ eeprom_ret = "none"

\* C8: after each run of bebopr_pre_init() that reads the stepper-driver
\* storage, config_use_pololu_drivers() reports TB6560 if and only if that
\* read returned the TB6560 marker, and pre_init succeeds.
C8_DriverFollowsRead ==
    (last_op = "bebopr_pre_init" /\ eeprom_ret # "none") =>
        /\ (config_use_pololu_drivers = 0) <=> (eeprom_ret = "TB6560_DRIVERS")
        /\ result = 0

PinsWritten(ws, file) == { ws[i].pin : i \in { j \in DOMAIN ws : ws[j].file = file } }

\* in the writes ws, some write w comes before position i
Before(ws, i, w) == \E j \in 1..(i - 1) : ws[j] = w
After(ws, i, w) == \E j \in (i + 1)..Len(ws) : ws[j] = w

\* power-on order on a 3.2 kernel: export, then direction out, then level
OnOrdered(ws) ==
    \A i \in DOMAIN ws :
        /\ ws[i].file \in {"export", "direction", "value"}
        /\ IsLevel(ws[i]) =>
               \E k \in 1..(i - 1) :
                   /\ ws[k] = [file |-> "direction", pin |-> ws[i].pin,
                               val |-> "out"]
                   /\ Before(ws, k, [file |-> "export", pin |-> ws[i].pin,
                                     val |-> ""])

\* power-off order on a 3.2 kernel: level, then direction in, then unexport
OffOrdered(ws) ==
    \A i \in DOMAIN ws :
        /\ ws[i].file \in {"unexport", "direction", "value"}
        /\ IsLevel(ws[i]) =>
               \E k \in (i + 1)..Len(ws) :
                   /\ ws[k] = [file |-> "direction", pin |-> ws[i].pin,
                               val |-> "in"]
                   /\ After(ws, k, [file |-> "unexport", pin |-> ws[i].pin,
                                    val |-> ""])
        /\ (~IsLevel(ws[i])) =>
               \E j \in 1..(i - 1) :
                   IsLevel(ws[j]) /\ ws[j].pin = ws[i].pin

LevelsOnly(ws) == \A i \in DOMAIN ws : IsLevel(ws[i])

\* C9: export, direction and unexport writes are issued only on a 3.2-legacy
\* kernel; there power-on exports a line and sets it to output before
\* writing its level, power-off writes the level before setting the line to
\* input and unexporting it, and every line power-on exported is unexported
\* by the power-off that follows; on any other kernel both write levels only.
C9_PinManagement ==
    /\ (last_op = "bebopr_post_init") =>
           /\ on_writes # << >>
           /\ IF current_kernel = "e_kernel_3_2"
              THEN OnOrdered(on_writes)
              ELSE LevelsOnly(on_writes)
    /\ (last_op = "bebopr_exit") =>
           /\ off_writes # << >>
           /\ IF current_kernel = "e_kernel_3_2"
              THEN OffOrdered(off_writes)
              ELSE LevelsOnly(off_writes)
           /\ PinsWritten(on_writes, "export")
                  \subseteq PinsWritten(off_writes, "unexport")

C9_Witness ==
    /\ last_op = "bebopr_exit"
    /\ current_kernel = "e_kernel_3_2"
    /\ ~BONE_BRIDGE
    /\ ~BONE_ENA_PATCH
    /\ PinsWritten(on_writes, "export") = {34, 38}
    /\ PinsWritten(off_writes, "unexport") = {34, 38}

\* the compiled-in calibration positions, lines 481-483
DefaultCalPos(a) == IF a = "z_axis" THEN Z_CAL_POS_DEFAULT ELSE 0

ExpectedCalPos(a) ==
    IF last_cal[a] = << >> THEN DefaultCalPos(a) ELSE last_cal[a][1]

\* C10: config_min_switch_pos(a) for a in X, Y, Z returns true and the value
\* of the most recent config_set_cal_pos(a, v), or the compiled-in default
\* if there was none; config_set_cal_pos returns true for X, Y, Z and false
\* for any other axis, for which no stored position changes.
C10_LastWriteWins ==
    /\ \A a \in CalAxes, p0 \in Positions :
           config_min_switch_pos(a, p0, x_cal_pos, y_cal_pos, z_cal_pos)
               = [pos |-> ExpectedCalPos(a), ret |-> 1]
    /\ (last_op = "config_set_cal_pos") =>
           result = (IF arg_axis \in CalAxes THEN 1 ELSE 0)
    /\ (last_op = "config_min_switch_pos" /\ arg_axis \in CalAxes) =>
           /\ result = 1
           /\ out_pos = ExpectedCalPos(arg_axis)

C10_Witness ==
    /\ last_op = "config_min_switch_pos"
    /\ arg_axis = "z_axis"
    /\ last_cal["z_axis"] = << 1 >>
    /\ last_cal["x_axis"] = << 2 >>
    /\ last_cal["y_axis"] = << >>
    /\ result = 1
    /\ out_pos = 1

=============================================================================
